---- MODULE Spec2Model ----
(***************************************************************************)
(* A model of package_statistics.py: the PackageContentsHandler (fetch,    *)
(* count file-to-package associations line by line, report the top k) and  *)
(* the entry-point pipeline that drives it.                                *)
(*                                                                         *)
(* Text is modelled character by character: a string is a sequence of      *)
(* one-character strings, so that readlines, re.split and str.split are    *)
(* computed the way Python computes them.                                  *)
(***************************************************************************)
EXTENDS Integers, Sequences, FiniteSets, TLC

VARIABLES
    mode,                  \* "main": the __main__ pipeline; "api": a caller using the class
    pc,                    \* where the driver stands
    dir_exists,            \* package_contents_directory exists on disk
    disk_file,             \* content of package_contents_filepath, or NoFile
    line_no,               \* lines of the current scan already processed
    package_associations,  \* the dict, as its items in insertion order
    error_log,             \* number of logging.error records written
    raised,                \* exception that ended the last call, or "none"
    stdout,                \* the text the last call printed, or NoOutput
    report_file,           \* <<how_many, text>> of the report file the last call wrote, or NoFile
    generate_calls,        \* calls of generate_package_association_stats so far
    fetch_calls,           \* calls of retrieve_package_contents_file so far
    completed_scans,       \* scans of the index that ran to the end
    lines_processed,       \* lines handed to the line processor, over all scans
    snapshots              \* the dict as it stood when each completed scan returned

vars == <<mode, pc, dir_exists, disk_file, line_no, package_associations,
          error_log, raised, stdout, report_file, generate_calls, fetch_calls,
          completed_scans, lines_processed, snapshots>>

----------------------------------------------------------------------------
(* Bounds of the model *)

MaxFileLen == 5

MaxGenerateCalls == 2

MaxHowMany == 3

MaxCount == 5

(* how_many's default, which the entry point uses *)
DefaultHowMany == 10

----------------------------------------------------------------------------
(* Text *)

Chars == {"a", "b", " ", ",", "\n"}

(* What a path holds when no file is there: no text over Chars *)
NoFile == <<"NoFile">>

(* Nothing printed yet: every printed text has its header *)
NoOutput == <<>>

(* Every text the index file may hold, up to the bound *)
Files == UNION {[1..n -> Chars] : n \in 0..MaxFileLen}

(* What \s matches, among Chars *)
IsSpace(c) == c \in {" ", "\n"}

(* file.readlines(): the text cut after every newline, the newline kept;   *)
(* a last line without newline is a line; the empty text has no line       *)
RECURSIVE ReadLinesFrom(_, _, _)
ReadLinesFrom(text, i, cur) ==
    IF i > Len(text)
    THEN IF cur = <<>> THEN <<>> ELSE <<cur>>
    ELSE IF text[i] = "\n"
         THEN <<Append(cur, text[i])>> \o ReadLinesFrom(text, i + 1, <<>>)
         ELSE ReadLinesFrom(text, i + 1, Append(cur, text[i]))

ReadLines(text) == ReadLinesFrom(text, 1, <<>>)

(* First position at or after i that holds no whitespace *)
RECURSIVE SkipSpaces(_, _)
SkipSpaces(s, i) ==
    IF i <= Len(s) /\ IsSpace(s[i]) THEN SkipSpaces(s, i + 1) ELSE i

(* re.split(r'\s+', s): s cut at every maximal run of whitespace; a run at *)
(* the start or the end of s leaves an empty string on that side           *)
RECURSIVE ReSplitFrom(_, _, _)
ReSplitFrom(s, i, cur) ==
    IF i > Len(s)
    THEN <<cur>>
    ELSE IF IsSpace(s[i])
         THEN <<cur>> \o ReSplitFrom(s, SkipSpaces(s, i), <<>>)
         ELSE ReSplitFrom(s, i + 1, Append(cur, s[i]))

ReSplit(s) == ReSplitFrom(s, 1, <<>>)

(* str.split(","): s cut at every comma; empty pieces are kept *)
RECURSIVE CommaSplitFrom(_, _, _)
CommaSplitFrom(s, i, cur) ==
    IF i > Len(s)
    THEN <<cur>>
    ELSE IF s[i] = ","
         THEN <<cur>> \o CommaSplitFrom(s, i + 1, <<>>)
         ELSE CommaSplitFrom(s, i + 1, Append(cur, s[i]))

CommaSplit(s) == CommaSplitFrom(s, 1, <<>>)

----------------------------------------------------------------------------
(* The dict package_associations: its items <<package, count>>, in         *)
(* insertion order                                                         *)

Keys(d) == {d[i][1] : i \in 1..Len(d)}

HasKey(d, k) == \E i \in 1..Len(d) : d[i][1] = k

Get(d, k) == LET i == CHOOSE j \in 1..Len(d) : d[j][1] = k IN d[i][2]

(* Count of k, 0 when k is no key *)
CountOf(d, k) == IF HasKey(d, k) THEN Get(d, k) ELSE 0

(* Mutant: a package already in the dict is not incremented *)
CountPackageDropIncrement(d, package) ==
    IF ~HasKey(d, package)
    THEN Append(d, <<package, 1>>)
    ELSE d

(* The body of the loop over possible_packages: insert with 1, or add 1 *)
CountPackage(d, package) ==
    IF ~HasKey(d, package)
    THEN Append(d, <<package, 1>>)
    ELSE [i \in 1..Len(d) |->
            IF d[i][1] = package THEN <<package, d[i][2] + 1>> ELSE d[i]]

(* Mutant: the package field is not split, only its first package counts *)
CountFirstPackageOnly(d, packages, i) ==
    IF i > Len(packages) THEN d ELSE CountPackage(d, packages[i])

RECURSIVE CountPackages(_, _, _)
CountPackages(d, packages, i) ==
    IF i > Len(packages)
    THEN d
    ELSE CountPackages(CountPackage(d, packages[i]), packages, i + 1)

(* The try block: indexing the split at [1] raises IndexError when the     *)
(* split has a single element                                              *)
SplitRaisesIndexError(line) == Len(ReSplit(line)) < 2

possible_package(line) == ReSplit(line)[2]

(* __process_package_association_line: the dict after the line *)
ProcessLineDict(d, line) ==
    IF SplitRaisesIndexError(line)
    THEN d
    ELSE CountPackages(d, CommaSplit(possible_package(line)), 1)

----------------------------------------------------------------------------
(* Top-k selection and the report text *)

(* One step of a stable sort by count, largest first: item, inserted       *)
(* before the items of sorted, goes behind those that count more and ahead *)
(* of those that count the same                                            *)
RECURSIVE InsertByCount(_, _)
InsertByCount(sorted, item) ==
    IF sorted = <<>>
    THEN <<item>>
    ELSE IF Head(sorted)[2] > item[2]
         THEN <<Head(sorted)>> \o InsertByCount(Tail(sorted), item)
         ELSE <<item>> \o sorted

RECURSIVE SortedByCount(_, _)
SortedByCount(d, i) ==
    IF i > Len(d)
    THEN <<>>
    ELSE InsertByCount(SortedByCount(d, i + 1), d[i])

(* Mutant: the items with the smallest counts first *)
RECURSIVE InsertByCountAscending(_, _)
InsertByCountAscending(sorted, item) ==
    IF sorted = <<>>
    THEN <<item>>
    ELSE IF Head(sorted)[2] < item[2]
         THEN <<Head(sorted)>> \o InsertByCountAscending(Tail(sorted), item)
         ELSE <<item>> \o sorted

RECURSIVE SortedAscending(_, _)
SortedAscending(d, i) ==
    IF i > Len(d)
    THEN <<>>
    ELSE InsertByCountAscending(SortedAscending(d, i + 1), d[i])

NSmallest(n, d) ==
    LET all == SortedAscending(d, 1)
    IN  [i \in 1..(IF n < Len(all) THEN (IF n < 0 THEN 0 ELSE n) ELSE Len(all))
            |-> all[i][1]]

(* heapq.nlargest(n, d, key=d.get): the keys of the n largest counts,      *)
(* largest first, equal counts in insertion order; all keys when n exceeds *)
(* their number, none when n <= 0                                          *)
NLargest(n, d) ==
    LET all == SortedByCount(d, 1)
    IN  [i \in 1..(IF n < Len(all) THEN (IF n < 0 THEN 0 ELSE n) ELSE Len(all))
            |-> all[i][1]]

(* The loop over range(how_many): one row per rank; sorted_packages[i]     *)
(* raises IndexError past the end of the selection                         *)
LoopRaisesIndexError(sorted_packages, how_many) ==
    how_many > Len(sorted_packages)

Header == <<"Package statistics", "amd64">>

OutputRows(d, sorted_packages, how_many) ==
    [i \in 1..(IF how_many < 0 THEN 0 ELSE how_many) |->
        <<i, sorted_packages[i], Get(d, sorted_packages[i])>>]

Output(d, sorted_packages, how_many) ==
    <<Header>> \o OutputRows(d, sorted_packages, how_many)

----------------------------------------------------------------------------
(* The handler and its drivers *)

(* __init__, and the driver before its first call *)
Init ==
    /\ mode \in {"main", "api"}
    /\ pc = "ready"
    /\ dir_exists = FALSE
    /\ disk_file = NoFile
    /\ line_no = 0
    /\ package_associations = <<>>
    /\ error_log = 0
    /\ raised = "none"
    /\ stdout = NoOutput
    /\ report_file = NoFile
    /\ generate_calls = 0
    /\ fetch_calls = 0
    /\ completed_scans = 0
    /\ lines_processed = 0
    /\ snapshots = <<>>

(* Mutant: the index is fetched on every call *)
FetchAlways == TRUE

(* not os.path.exists(self.package_contents_filepath) *)
NeedsFetch == disk_file = NoFile

(* Mutant: a failed call is swallowed and the driver goes on *)
GoOnAfterException == IF mode = "main" THEN "report" ELSE "ready"

(* Nothing in the handler or the entry point catches an exception: in the  *)
(* entry point it ends the process; a caller of the class gets it          *)
AfterException == IF mode = "main" THEN "aborted" ELSE "ready"

(* Where the driver stands after a call that returned *)
AfterGenerate == IF mode = "main" THEN "report" ELSE "ready"

AfterReport == IF mode = "main" THEN "exit" ELSE "ready"

(* The lines readlines() hands to the loop *)
Lines == IF disk_file = NoFile THEN <<>> ELSE ReadLines(disk_file)

CanCallGenerate == pc = "ready" /\ generate_calls < MaxGenerateCalls

(* generate_package_association_stats, the index already on disk: no      *)
(* fetch, the file is opened and read                                      *)
GenerateFileExists ==
    /\ CanCallGenerate
    /\ ~NeedsFetch
    /\ generate_calls' = generate_calls + 1
    /\ pc' = "scanning"
    /\ line_no' = 0
    /\ raised' = "none"
    /\ stdout' = NoOutput
    /\ report_file' = NoFile
    /\ UNCHANGED <<mode, dir_exists, disk_file, package_associations, error_log,
                   fetch_calls, completed_scans, lines_processed, snapshots>>

(* generate_package_association_stats with a fetch that succeeds: the      *)
(* directory is made, the archive downloaded and extracted, the file read  *)
GenerateFetchOk ==
    /\ CanCallGenerate
    /\ NeedsFetch
    /\ \E content \in Files : disk_file' = content
    /\ dir_exists' = TRUE
    /\ fetch_calls' = fetch_calls + 1
    /\ generate_calls' = generate_calls + 1
    /\ pc' = "scanning"
    /\ line_no' = 0
    /\ raised' = "none"
    /\ stdout' = NoOutput
    /\ report_file' = NoFile
    /\ UNCHANGED <<mode, package_associations, error_log, completed_scans,
                   lines_processed, snapshots>>

(* generate_package_association_stats with a fetch that raises: in         *)
(* os.makedirs, in urlretrieve (the directory is there), or at the first   *)
(* read of a body that is no gzip archive (the output file is already      *)
(* created, and stays empty)                                               *)
GenerateFetchFails ==
    /\ CanCallGenerate
    /\ NeedsFetch
    /\ \/ /\ raised' = "OSError"
          /\ UNCHANGED <<dir_exists, disk_file>>
       \/ /\ raised' = "URLError"
          /\ dir_exists' = TRUE
          /\ UNCHANGED disk_file
       \/ /\ raised' = "BadGzipFile"
          /\ dir_exists' = TRUE
          /\ disk_file' = <<>>
    /\ fetch_calls' = fetch_calls + 1
    /\ generate_calls' = generate_calls + 1
    /\ pc' = AfterException
    /\ stdout' = NoOutput
    /\ report_file' = NoFile
    /\ UNCHANGED <<mode, line_no, package_associations, error_log,
                   completed_scans, lines_processed, snapshots>>

(* One turn of the loop: __process_package_association_line on the next    *)
(* line                                                                    *)
ProcessLine ==
    /\ pc = "scanning"
    /\ line_no < Len(Lines)
    /\ LET line == Lines[line_no + 1]
       IN  /\ package_associations' = ProcessLineDict(package_associations, line)
           /\ error_log' = IF SplitRaisesIndexError(line)
                           THEN error_log + 1 ELSE error_log
    /\ line_no' = line_no + 1
    /\ lines_processed' = lines_processed + 1
    /\ UNCHANGED <<mode, pc, dir_exists, disk_file, raised, stdout, report_file,
                   generate_calls, fetch_calls, completed_scans, snapshots>>

(* The loop is over: generate_package_association_stats returns *)
GenerateReturn ==
    /\ pc = "scanning"
    /\ line_no = Len(Lines)
    /\ pc' = AfterGenerate
    /\ completed_scans' = completed_scans + 1
    /\ snapshots' = Append(snapshots, package_associations)
    /\ UNCHANGED <<mode, dir_exists, disk_file, line_no, package_associations,
                   error_log, raised, stdout, report_file, generate_calls,
                   fetch_calls, lines_processed>>

(* The calls of show_top_packages_with_most_associations the driver makes: *)
(* the entry point with the default, a caller with any how_many            *)
CanCallReport(how_many) ==
    \/ mode = "main" /\ pc = "report" /\ how_many = DefaultHowMany
    \/ mode = "api" /\ pc = "ready" /\ how_many \in 0..MaxHowMany

HowManyValues == 0..MaxHowMany \cup {DefaultHowMany}

(* show_top_packages_with_most_associations, the loop indexing past the    *)
(* selection: IndexError before anything is printed                        *)
ReportIndexError ==
    /\ \E how_many \in HowManyValues :
          /\ CanCallReport(how_many)
          /\ LoopRaisesIndexError(NLargest(how_many, package_associations), how_many)
    /\ raised' = "IndexError"
    /\ pc' = AfterException
    /\ stdout' = NoOutput
    /\ report_file' = NoFile
    /\ UNCHANGED <<mode, dir_exists, disk_file, line_no, package_associations,
                   error_log, generate_calls, fetch_calls, completed_scans,
                   lines_processed, snapshots>>

(* show_top_packages_with_most_associations, printed and written *)
ReportWritten ==
    /\ \E how_many \in HowManyValues :
          /\ CanCallReport(how_many)
          /\ \E sorted_packages \in {NLargest(how_many, package_associations)} :
                /\ ~LoopRaisesIndexError(sorted_packages, how_many)
                /\ dir_exists
                /\ stdout' = Output(package_associations, sorted_packages, how_many)
                /\ report_file' = <<how_many, stdout'>>
    /\ raised' = "none"
    /\ pc' = AfterReport
    /\ UNCHANGED <<mode, dir_exists, disk_file, line_no, package_associations,
                   error_log, generate_calls, fetch_calls, completed_scans,
                   lines_processed, snapshots>>

(* show_top_packages_with_most_associations, printed, and open() of the    *)
(* report file raising because its directory is not there                  *)
ReportNoDirectory ==
    /\ \E how_many \in HowManyValues :
          /\ CanCallReport(how_many)
          /\ \E sorted_packages \in {NLargest(how_many, package_associations)} :
                /\ ~LoopRaisesIndexError(sorted_packages, how_many)
                /\ ~dir_exists
                /\ stdout' = Output(package_associations, sorted_packages, how_many)
    /\ raised' = "FileNotFoundError"
    /\ pc' = AfterException
    /\ report_file' = NoFile
    /\ UNCHANGED <<mode, dir_exists, disk_file, line_no, package_associations,
                   error_log, generate_calls, fetch_calls, completed_scans,
                   lines_processed, snapshots>>

Next ==
    \/ GenerateFileExists
    \/ GenerateFetchOk
    \/ GenerateFetchFails
    \/ ProcessLine
    \/ GenerateReturn
    \/ ReportIndexError
    \/ ReportWritten
    \/ ReportNoDirectory

Spec == Init /\ [][Next]_vars

----------------------------------------------------------------------------
(* The report on larger mappings: the handler as one scan of an index      *)
(* leaves it, for every mapping of up to four packages with counts up to   *)
(* MaxCount, in every insertion order                                      *)

Packages == {<<"a">>, <<"b">>, <<"c">>, <<"d">>}

(* The orders in which some of the packages may have been inserted *)
KeyOrders ==
    {ks \in UNION {[1..m -> Packages] : m \in 0..Cardinality(Packages)} :
        \A i, j \in 1..Len(ks) : i # j => ks[i] # ks[j]}

(* The dict that holds the packages ks, in this order, with these counts *)
DictOf(ks, counts) == [i \in 1..Len(ks) |-> <<ks[i], counts[i]>>]

(* count lines "f <package>" and a newline *)
RECURSIVE LinesFor(_, _)
LinesFor(package, count) ==
    IF count = 0
    THEN <<>>
    ELSE <<"f", " ">> \o package \o <<"\n">> \o LinesFor(package, count - 1)

(* An index text whose scan yields d: the lines of d's packages, in d's    *)
(* order                                                                   *)
RECURSIVE IndexFor(_, _)
IndexFor(d, i) ==
    IF i > Len(d)
    THEN <<>>
    ELSE LinesFor(d[i][1], d[i][2]) \o IndexFor(d, i + 1)

(* The dict after the loop of generate_package_association_stats has run   *)
(* over lines, from the i-th on                                            *)
RECURSIVE ScanLines(_, _, _)
ScanLines(d, lines, i) ==
    IF i > Len(lines)
    THEN d
    ELSE ScanLines(ProcessLineDict(d, lines[i]), lines, i + 1)

InitSelect ==
    \E ks \in KeyOrders : \E counts \in [1..Len(ks) -> 1..MaxCount] :
    \E index \in {IndexFor(DictOf(ks, counts), 1)} :
    \E lines \in {ReadLines(index)} :
        /\ mode = "api"
        /\ pc = "ready"
        /\ dir_exists = TRUE
        /\ disk_file = index
        /\ line_no = Len(lines)
        /\ package_associations = ScanLines(<<>>, lines, 1)
        /\ error_log = 0
        /\ raised = "none"
        /\ stdout = NoOutput
        /\ report_file = NoFile
        /\ generate_calls = 1
        /\ fetch_calls = 1
        /\ completed_scans = 1
        /\ lines_processed = line_no
        /\ snapshots = <<package_associations>>

NextSelect ==
    \/ ReportIndexError
    \/ ReportWritten

SpecSelect == InitSelect /\ [][NextSelect]_vars

----------------------------------------------------------------------------
(* What the claims speak of *)

Min(x, y) == IF x < y THEN x ELSE y

RECURSIVE SumCounts(_, _)
SumCounts(d, i) == IF i > Len(d) THEN 0 ELSE d[i][2] + SumCounts(d, i + 1)

(* The whitespace-delimited tokens of a line: its maximal runs of          *)
(* characters that are not whitespace                                      *)
RECURSIVE TokensFrom(_, _, _)
TokensFrom(s, i, cur) ==
    IF i > Len(s)
    THEN IF cur = <<>> THEN <<>> ELSE <<cur>>
    ELSE IF IsSpace(s[i])
         THEN (IF cur = <<>> THEN <<>> ELSE <<cur>>) \o TokensFrom(s, i + 1, <<>>)
         ELSE TokensFrom(s, i + 1, Append(cur, s[i]))

Tokens(line) == TokensFrom(line, 1, <<>>)

(* A valid line has a package field: its second token *)
IsValidLine(line) == Len(Tokens(line)) >= 2

(* Number of commas in s, plus one: its comma-separated tokens *)
CommaTokenCount(s) == Cardinality({i \in 1..Len(s) : s[i] = ","}) + 1

RECURSIVE ValidTokenCount(_, _)
ValidTokenCount(lines, i) ==
    IF i > Len(lines)
    THEN 0
    ELSE (IF IsValidLine(lines[i]) THEN CommaTokenCount(Tokens(lines[i])[2]) ELSE 0)
         + ValidTokenCount(lines, i + 1)

(* The package identifiers the line processor reads off a line: none when  *)
(* the split has no element 1                                              *)
PackagesOf(line) ==
    IF SplitRaisesIndexError(line) THEN <<>> ELSE CommaSplit(possible_package(line))

(* The identifiers read off the first n lines, line after line *)
RECURSIVE ProcessedPackages(_, _)
ProcessedPackages(lines, n) ==
    IF n = 0 THEN <<>> ELSE ProcessedPackages(lines, n - 1) \o PackagesOf(lines[n])

CountIn(seq, x) == Cardinality({i \in 1..Len(seq) : seq[i] = x})

(* How often package stands among the identifiers of the first n lines *)
Occurrences(lines, n, package) == CountIn(ProcessedPackages(lines, n), package)

IsIn(seq, x) == \E i \in 1..Len(seq) : seq[i] = x

(* How many of the first n lines name package among their identifiers *)
RECURSIVE LinesNaming(_, _, _)
LinesNaming(lines, n, package) ==
    IF n = 0
    THEN 0
    ELSE (IF IsIn(PackagesOf(lines[n]), package) THEN 1 ELSE 0)
         + LinesNaming(lines, n - 1, package)

(* A line as the Contents format has it: a path without blanks at the      *)
(* start of the line, then a package field whose identifiers are not empty *)
WellFormedLine(line) ==
    /\ Len(Tokens(line)) = 2
    /\ ~IsSpace(line[1])
    /\ \A i \in 1..Len(CommaSplit(Tokens(line)[2])) :
          CommaSplit(Tokens(line)[2])[i] # <<>>

(* A line that starts with its path, or the empty line *)
FlushLeft(line) == ~IsSpace(line[1]) \/ line = <<"\n">>

WellFormedIndex == \A i \in 1..Len(Lines) : WellFormedLine(Lines[i])

(* Lines of the scan under way that are processed *)
ScanProgress == IF pc = "scanning" THEN line_no ELSE 0

FetchErrors == {"OSError", "URLError", "BadGzipFile"}

(* The last call was a report that wrote its file: its how_many, its rows *)
ReportDone == report_file # NoFile

ReportHowMany == report_file[1]

ReportRows == Tail(report_file[2])

(* A step that processes one line of the index *)
LineStep == pc = "scanning" /\ line_no' = line_no + 1

----------------------------------------------------------------------------
(* C1: report(k) never raises, and lists exactly min(k, M) entries for a   *)
(* mapping of M distinct packages.                                         *)
C1_ReportClampsToMapping ==
    /\ raised # "IndexError"
    /\ ReportDone =>
         Len(ReportRows) = Min(ReportHowMany, Len(package_associations))

(* C2: processing a line with a single whitespace-delimited token (also    *)
(* one ending in a newline, also an empty line) leaves the mapping as it   *)
(* was, logs an error, and the scan goes on. Stated for lines that start   *)
(* with their token, and the empty line.                                   *)
C2_OneTokenLineLeavesMapping ==
    [][(/\ LineStep
        /\ ~IsValidLine(Lines[line_no + 1])
        /\ FlushLeft(Lines[line_no + 1])) =>
          /\ package_associations' = package_associations
          /\ error_log' = error_log + 1
          /\ pc' = "scanning"]_vars

(* C3: a second generate_stats over the same unchanged index leaves the    *)
(* mapping the first call produced: every key with the same count. Stated  *)
(* for a well-formed index, where no line is skipped.                      *)
C3_SecondScanSameMapping ==
    (WellFormedIndex /\ Len(snapshots) >= 2) => snapshots[2] = snapshots[1]

(* C4: after generate_stats has scanned the index, the counts add up to    *)
(* the number of comma-separated package tokens of the valid lines; lines  *)
(* without a package field add nothing. Stated for the first scan, of an   *)
(* index whose lines start with their path or are empty.                   *)
C4_SumIsValidTokenCount ==
    (/\ completed_scans = 1
     /\ pc # "scanning"
     /\ \A i \in 1..Len(Lines) : FlushLeft(Lines[i])) =>
        SumCounts(package_associations, 1) = ValidTokenCount(Lines, 1)

(* C5: with at least k packages in the mapping, report(k) lists k distinct *)
(* packages ranked 1..k, each beside its own count in the mapping, the     *)
(* counts non-increasing and no unlisted package counting more than a      *)
(* listed one (the k largest counts).                                      *)
C5_ReportIsTopK ==
    ReportDone =>
        LET d == package_associations
            rows == ReportRows
            k == ReportHowMany
        IN  /\ Len(d) >= k
            /\ Len(rows) = k
            /\ \A i \in 1..k :
                  /\ rows[i][1] = i
                  /\ HasKey(d, rows[i][2])
                  /\ rows[i][3] = Get(d, rows[i][2])
            /\ \A i, j \in 1..k : i # j => rows[i][2] # rows[j][2]
            /\ \A i \in 1..(k - 1) : rows[i][3] >= rows[i + 1][3]
            /\ \A i \in 1..k : \A j \in 1..Len(d) :
                  (\A r \in 1..k : rows[r][2] # d[j][1]) => d[j][2] <= rows[i][3]

(* The top 2 of {a: 5, b: 3, c: 3, d: 1}, inserted smallest first: a with  *)
(* 5, then b or c with 3                                                   *)
C5_Witness ==
    /\ ReportDone
    /\ ReportHowMany = 2
    /\ Len(package_associations) = 4
    /\ package_associations[1] = <<<<"d">>, 1>>
    /\ package_associations[4] = <<<<"a">>, 5>>
    /\ CountOf(package_associations, <<"b">>) = 3
    /\ CountOf(package_associations, <<"c">>) = 3
    /\ ReportRows[1] = <<1, <<"a">>, 5>>
    /\ ReportRows[2][2] \in {<<"b">>, <<"c">>}
    /\ ReportRows[2][3] = 3

(* C6: the Fetcher is invoked by a call only when the decompressed index   *)
(* is not on disk as the call starts; once the index is on disk it stays   *)
(* as it is and the Fetcher is not invoked again.                          *)
C6_FetchOnlyWhenAbsent ==
    [][/\ fetch_calls' # fetch_calls =>
             (disk_file = NoFile /\ fetch_calls' = fetch_calls + 1)
       /\ disk_file # NoFile =>
             (disk_file' = disk_file /\ fetch_calls' = fetch_calls)]_vars

(* A second call found the index on disk and went on without fetching *)
C6_Witness ==
    /\ generate_calls = 2
    /\ fetch_calls = 1
    /\ completed_scans = 1
    /\ pc = "scanning"
    /\ disk_file # NoFile

(* C7: a line whose package field is "pkgA,pkgB", two different            *)
(* identifiers, raises the count of each by exactly 1 (from 0 when absent) *)
(* and leaves every other key and count as they were.                      *)
C7_TwoPackagesLine ==
    [][(/\ LineStep
        /\ Len(PackagesOf(Lines[line_no + 1])) = 2
        /\ PackagesOf(Lines[line_no + 1])[1] # PackagesOf(Lines[line_no + 1])[2]) =>
          LET pkgA == PackagesOf(Lines[line_no + 1])[1]
              pkgB == PackagesOf(Lines[line_no + 1])[2]
              before == package_associations
              after == package_associations'
          IN  /\ CountOf(after, pkgA) = CountOf(before, pkgA) + 1
              /\ CountOf(after, pkgB) = CountOf(before, pkgB) + 1
              /\ Keys(after) = Keys(before) \cup {pkgA, pkgB}
              /\ \A key \in Keys(before) \ {pkgA, pkgB} :
                    CountOf(after, key) = CountOf(before, key)]_vars

(* A two-package line has been processed onto a mapping that already held  *)
(* its first package                                                       *)
C7_Witness ==
    /\ pc = "scanning"
    /\ line_no >= 1
    /\ Len(PackagesOf(Lines[line_no])) = 2
    /\ PackagesOf(Lines[line_no])[1] # PackagesOf(Lines[line_no])[2]
    /\ CountOf(package_associations, PackagesOf(Lines[line_no])[1]) >= 2

(* C8: a failing Fetcher ends generate_stats in error: no line is          *)
(* processed, the mapping stays as it was, nothing is printed or written,  *)
(* and the entry point stops there, before the report.                     *)
C8_FetchFailureIsFatal ==
    [][/\ (fetch_calls' # fetch_calls /\ raised' \in FetchErrors) =>
             /\ package_associations' = package_associations
             /\ lines_processed' = lines_processed
             /\ completed_scans' = completed_scans
             /\ pc' # "scanning"
             /\ stdout' = NoOutput
             /\ report_file' = NoFile
             /\ mode = "main" => pc' = "aborted"
       /\ (mode = "main" /\ raised \in FetchErrors) =>
             (pc' = "aborted" /\ stdout' = NoOutput /\ report_file' = NoFile)]_vars

C8_Witness ==
    /\ mode = "main"
    /\ pc = "aborted"
    /\ raised \in FetchErrors
    /\ fetch_calls = 1

(* C9, as claimed: every key counts at least 1 and counts the lines        *)
(* processed so far that name it in their package field, a line naming it  *)
(* twice included. Stated for a well-formed index.                         *)
C9_CountIsLinesNaming ==
    WellFormedIndex => \A i \in 1..Len(package_associations) :
        /\ package_associations[i][2] >= 1
        /\ package_associations[i][2] =
              completed_scans * LinesNaming(Lines, Len(Lines), package_associations[i][1])
              + LinesNaming(Lines, ScanProgress, package_associations[i][1])

(* C9, amended: every key counts at least 1 and counts the occurrences of  *)
(* its identifier among the comma-separated identifiers of the package     *)
(* fields processed so far: a line naming it twice counts twice.           *)
C9_CountIsOccurrences ==
    \A i \in 1..Len(package_associations) :
        /\ package_associations[i][2] >= 1
        /\ package_associations[i][2] =
              completed_scans * Occurrences(Lines, Len(Lines), package_associations[i][1])
              + Occurrences(Lines, ScanProgress, package_associations[i][1])

(* A line naming one identifier twice has been processed *)
C9_Witness ==
    /\ pc = "scanning"
    /\ line_no >= 1
    /\ \E i, j \in 1..Len(PackagesOf(Lines[line_no])) :
          /\ i # j
          /\ PackagesOf(Lines[line_no])[i] = PackagesOf(Lines[line_no])[j]
          /\ Len(PackagesOf(Lines[line_no])[i]) >= 1

(* C10: text is never printed without the report file holding the same     *)
(* text when the operation ends.                                           *)
C10_PrintedIsWritten ==
    stdout # NoOutput => (report_file # NoFile /\ report_file[2] = stdout)

====
